---- MODULE Spec2Model ----
(***************************************************************************)
(* Model of src/app.py: clean_address, geocode_address and the batch loop  *)
(* of main that geocodes the rows of the uploaded table one after another. *)
(* Strings are sequences of one-character strings, so that clean_address   *)
(* is computed character by character as the regular expression and the    *)
(* split/join of the source compute it.                                    *)
(***************************************************************************)
EXTENDS Integers, Sequences, FiniteSets, TLC

VARIABLES
    df,                \* the rows of the uploaded table (main, line 146/148)
    max_retries,       \* geocode_address's max_retries parameter (line 24)
    index,             \* the row the loop of main is at (line 166), 1-based
    pc,                \* where the control is within main / geocode_address
    retry,             \* the loop variable of `for retry in range(max_retries)`
    calls,             \* what geocode_address did for the current row, in order
    requested,         \* the query strings sent to the geocoder so far in the run
    last_event,        \* what the run did last on the network: a request or a sleep
    geocoded_results,  \* main's list of (lat, lng) pairs (line 165)
    cpc,               \* clean_address harness: how many times it was applied
    cx,                \* clean_address harness: the input string
    cy,                \* clean_address harness: clean_address(cx)
    cz                 \* clean_address harness: clean_address(cy)

vars == <<df, max_retries, index, pc, retry, calls, requested, last_event,
          geocoded_results, cpc, cx, cy, cz>>

mainVars == <<df, max_retries, index, pc, retry, calls, requested, last_event,
              geocoded_results>>
cleanVars == <<cpc, cx, cy, cz>>

----------------------------------------------------------------------------
(* Bounds of the model *)

MaxRecords == 2
MaxRetriesBound == 2
MaxLen == 3

----------------------------------------------------------------------------
(* Characters and strings *)

\* Python's None, as a value of latitude/longitude and of a geocoder answer
None == "None"

\* Python's None as the value of a row's field (a field is a sequence)
NoneField == <<None>>

\* \w of the regular expression at line 20
WordChars == {"a", "b", "s", "1", "N", "o", "n", "e", "_"}

\* \s of the regular expression at line 20, and what str.split() splits on
SpaceChars == {" ", "\t"}

\* every other character: punctuation that line 20 removes
PunctChars == {".", "-"}

\* re.sub(r'[^\w\s,]', '', address), line 20
StripPunct(s) == SelectSeq(s, LAMBDA c : c \in WordChars \cup SpaceChars \cup {","})

RECURSIVE SplitFrom(_, _, _)
\* address.split(): the maximal runs of non-whitespace characters, line 21
SplitFrom(s, i, word) ==
    IF i > Len(s)
    THEN IF word = <<>> THEN <<>> ELSE <<word>>
    ELSE IF s[i] \in SpaceChars
         THEN IF word = <<>>
              THEN SplitFrom(s, i + 1, <<>>)
              ELSE <<word>> \o SplitFrom(s, i + 1, <<>>)
         ELSE SplitFrom(s, i + 1, Append(word, s[i]))

Split(s) == SplitFrom(s, 1, <<>>)

RECURSIVE Join(_)
\* ' '.join(words), line 21
Join(words) ==
    IF words = <<>> THEN <<>>
    ELSE IF Len(words) = 1 THEN words[1]
    ELSE words[1] \o <<" ">> \o Join(Tail(words))

\* a plausible slip: whitespace collapsed before the punctuation is removed
clean_address_swapped(address) == StripPunct(Join(Split(address)))

\* clean_address, lines 18-22
clean_address(address) == Join(Split(StripPunct(address)))

\* f"{v}": str(None) is "None", a string is itself
Format(v) == IF v = NoneField THEN <<"N", "o", "n", "e">> ELSE v

\* `if state:` / `if postal_code:`: None and "" are falsy
Truthy(v) == v # NoneField /\ v # <<>>

\* f"{x}, {y}"
CommaJoin(x, y) == x \o <<",", " ">> \o Format(y)

\* lines 30-33 and 42-45: the optional state and postal code appended
WithOptional(base, row) ==
    LET withState == IF Truthy(row.state) THEN CommaJoin(base, row.state) ELSE base
    IN  IF Truthy(row.postal_code) THEN CommaJoin(withState, row.postal_code)
        ELSE withState

\* lines 29-34: the Full Address query
FullAddress(row) ==
    clean_address(WithOptional(CommaJoin(Format(row.address), row.city), row))

\* lines 41-46: the City Only query
CityAddress(row) == clean_address(WithOptional(Format(row.city), row))

----------------------------------------------------------------------------
(* The geocoder: an external service, any answer at any call *)

Transient == {"GeocoderTimedOut", "GeocoderServiceError"}

Exceptions == Transient \cup {"Exception"}

Locations == {[kind |-> "location", latitude |-> "lat1", longitude |-> "lng1"],
              [kind |-> "location", latitude |-> "lat2", longitude |-> "lng2"]}

Responses ==
    Locations \cup {[kind |-> "None"]}
              \cup {[kind |-> "raise", exc |-> e] : e \in Exceptions}

----------------------------------------------------------------------------
(* The rows a table may hold *)

Rows == {
    [address |-> <<"a", ".">>, city |-> <<"b">>, state |-> NoneField,
     postal_code |-> NoneField],
    [address |-> <<"a">>, city |-> <<"b">>, state |-> <<>>,
     postal_code |-> NoneField],
    [address |-> <<>>, city |-> NoneField, state |-> <<"s">>,
     postal_code |-> <<"1">>]
}

RECURSIVE SeqsUpTo(_, _)
\* all sequences over S of length at most n
SeqsUpTo(S, n) ==
    IF n = 0 THEN {<<>>}
    ELSE LET shorter == SeqsUpTo(S, n - 1)
         IN  shorter \cup {Append(s, c) : s \in shorter, c \in S}

Tables == SeqsUpTo(Rows, MaxRecords) \ {<<>>}

----------------------------------------------------------------------------
(* geocode_address and the loop of main *)

\* the row main's loop is at
row == df[index]

\* one request to the geocoder, as recorded in calls
Request(strategy, query, resp) ==
    [kind |-> "geocode", strategy |-> strategy, query |-> query,
     retry |-> retry, result |-> resp]

\* a plausible slip: one iteration too many
LoopCondOffByOne(r) == r <= max_retries

\* `for retry in range(max_retries)`, line 27: is there another iteration
LoopCond(r) == r < max_retries

\* a plausible slip: no `except Exception` clause, other exceptions propagate
HandlerReraise(exc) == IF exc \in Transient THEN "sleep" ELSE "raise"

\* the except clauses, lines 51-57: where control goes on an exception
Handler(exc) == IF exc \in Transient THEN "sleep" ELSE "break"

\* a plausible slip: the City Only query is sent whatever the first answer was
AfterFullNoStop(resp) ==
    CASE resp.kind = "raise" -> Handler(resp.exc)
      [] OTHER -> "city"

\* lines 35-39: where control goes on the answer to the Full Address query
AfterFull(resp) ==
    CASE resp.kind = "location" -> "return"
      [] resp.kind = "None" -> "city"
      [] resp.kind = "raise" -> Handler(resp.exc)

\* a plausible slip: `continue` instead of `break` at line 57
AfterCityNoBreak(resp) ==
    CASE resp.kind = "location" -> "return"
      [] resp.kind = "None" -> "next"
      [] resp.kind = "raise" -> "sleep"

\* lines 47-49: where control goes on the answer to the City Only query
AfterCity(resp) ==
    CASE resp.kind = "location" -> "return"
      [] resp.kind = "None" -> "next"
      [] resp.kind = "raise" -> Handler(resp.exc)

\* the effect of a geocoder answer on the control, the loop variable and the results
Continue(nxt, resp) ==
    /\ pc' = CASE nxt = "return" -> "main"
               [] nxt = "break" -> "failed"
               [] nxt = "next" -> "loop"
               [] OTHER -> nxt
    /\ retry' = IF nxt = "next" THEN retry + 1 ELSE retry
    /\ IF nxt = "return"
       THEN /\ geocoded_results' =
                   Append(geocoded_results, <<resp.latitude, resp.longitude>>)
            /\ index' = index + 1
       ELSE UNCHANGED <<geocoded_results, index>>

\* main, lines 166-169: the next row is handed to geocode_address
CallGeocodeAddress ==
    /\ pc = "main"
    /\ index <= Len(df)
    /\ pc' = "loop"
    /\ retry' = 0
    /\ calls' = <<>>
    /\ UNCHANGED <<df, max_retries, index, requested, last_event,
                   geocoded_results, cleanVars>>

\* line 27: the head of the retry loop
LoopHead ==
    /\ pc = "loop"
    /\ pc' = IF LoopCond(retry) THEN "full" ELSE "failed"
    /\ UNCHANGED <<df, max_retries, index, retry, calls, requested,
                   last_event, geocoded_results, cleanVars>>

\* lines 29-39 (and 51-57 when the call raises): the Full Address query
GeocodeFull ==
    /\ pc = "full"
    /\ \E resp \in Responses :
          /\ calls' = Append(calls, Request("full", FullAddress(row), resp))
          /\ requested' = requested \cup {FullAddress(row)}
          /\ last_event' = "request"
          /\ Continue(AfterFull(resp), resp)
    /\ UNCHANGED <<df, max_retries, cleanVars>>

\* lines 41-49 (and 51-57 when the call raises): the City Only query
GeocodeCity ==
    /\ pc = "city"
    /\ \E resp \in Responses :
          /\ calls' = Append(calls, Request("city", CityAddress(row), resp))
          /\ requested' = requested \cup {CityAddress(row)}
          /\ last_event' = "request"
          /\ Continue(AfterCity(resp), resp)
    /\ UNCHANGED <<df, max_retries, cleanVars>>

\* lines 52-54: time.sleep(5), then the next iteration
Sleep ==
    /\ pc = "sleep"
    /\ calls' = Append(calls, [kind |-> "sleep", retry |-> retry])
    /\ last_event' = "sleep"
    /\ retry' = retry + 1
    /\ pc' = "loop"
    /\ UNCHANGED <<df, max_retries, index, requested, geocoded_results, cleanVars>>

\* lines 59-60 and 170: (None, None) is returned and appended
Fail ==
    /\ pc = "failed"
    /\ geocoded_results' = Append(geocoded_results, <<None, None>>)
    /\ index' = index + 1
    /\ pc' = "main"
    /\ UNCHANGED <<df, max_retries, retry, calls, requested, last_event, cleanVars>>

\* line 171: the loop is over, the results become the table's columns
Finish ==
    /\ pc = "main"
    /\ index > Len(df)
    /\ pc' = "done"
    /\ UNCHANGED <<df, max_retries, index, retry, calls, requested,
                   last_event, geocoded_results, cleanVars>>

Init ==
    /\ df \in Tables
    /\ max_retries \in 0..MaxRetriesBound
    /\ index = 1
    /\ pc = "main"
    /\ retry = 0
    /\ calls = <<>>
    /\ requested = {}
    /\ last_event = "none"
    /\ geocoded_results = <<>>
    /\ cpc = 0
    /\ cx = <<>>
    /\ cy = <<>>
    /\ cz = <<>>

Next ==
    \/ CallGeocodeAddress
    \/ LoopHead
    \/ GeocodeFull
    \/ GeocodeCity
    \/ Sleep
    \/ Fail
    \/ Finish

Spec == Init /\ [][Next]_vars

----------------------------------------------------------------------------
(* clean_address applied twice to any string *)

Alphabet == {"a", " ", "\t", ",", "."}

\* address = clean_address(address), first application
CleanOnce ==
    /\ cpc = 0
    /\ cy' = clean_address(cx)
    /\ cpc' = 1
    /\ UNCHANGED <<cx, cz, mainVars>>

\* the result cleaned again
CleanTwice ==
    /\ cpc = 1
    /\ cz' = clean_address(cy)
    /\ cpc' = 2
    /\ UNCHANGED <<cx, cy, mainVars>>

InitClean ==
    /\ df = <<>>
    /\ max_retries = 0
    /\ index = 1
    /\ pc = "clean"
    /\ retry = 0
    /\ calls = <<>>
    /\ requested = {}
    /\ last_event = "none"
    /\ geocoded_results = <<>>
    /\ cpc = 0
    /\ cx \in SeqsUpTo(Alphabet, MaxLen)
    /\ cy = <<>>
    /\ cz = <<>>

NextClean ==
    \/ CleanOnce
    \/ CleanTwice

SpecClean == InitClean /\ [][NextClean]_vars

----------------------------------------------------------------------------
(* What the claims speak of *)

\* the positions of calls that are requests to the geocoder
RequestsIn(log) == {k \in 1..Len(log) : log[k].kind = "geocode"}

NumRequests == Cardinality(RequestsIn(calls))

NumSleeps == Cardinality({k \in 1..Len(calls) : calls[k].kind = "sleep"})

\* geocode_address has just returned for row index - 1, and calls is what it did
RowDone == pc \in {"main", "done"} /\ index > 1

\* the outcome of the row that was just done
Outcome == geocoded_results[index - 1]

Failed(o) == o = <<None, None>>

Resolved(o) == o[1] # None /\ o[2] # None

Raised(e) == e.kind = "geocode" /\ e.result.kind = "raise"

\* every request made for the row raised a transient error
AllTransient(log) ==
    \A k \in RequestsIn(log) : Raised(log[k]) /\ log[k].result.exc \in Transient

\* this step sends the query q to the geocoder
SentNow(q) ==
    /\ Len(calls') = Len(calls) + 1
    /\ calls'[Len(calls')].kind = "geocode"
    /\ calls'[Len(calls')].query = q

\* `not address` in Python terms: None or the empty string
Missing(v) == ~Truthy(v)

----------------------------------------------------------------------------
(* The claims *)

C1_State ==
    /\ pc \in {"main", "loop", "full", "city", "sleep", "failed", "done"}
    /\ Len(geocoded_results) = index - 1
    /\ index <= Len(df) + 1
    /\ \A i \in 1..Len(geocoded_results) :
          Failed(geocoded_results[i]) \/ Resolved(geocoded_results[i])
    /\ pc = "done" => Len(geocoded_results) = Len(df)

C1_Step ==
    geocoded_results' # geocoded_results =>
        /\ index <= Len(df)
        /\ Len(geocoded_results') = index
        /\ SubSeq(geocoded_results', 1, index - 1) = geocoded_results
        /\ index' = index + 1

\* C1: the batch loop yields exactly one outcome per row, in the order of the
\* rows; an outcome is (None, None) or has both coordinates; no geocoder
\* answer, an exception of any kind included, takes the control out of
\* geocode_address and the loop of main (pc stays within them until done).
C1_OneOutcomePerRecord == [](C1_State) /\ [][C1_Step]_vars

\* a table of two rows is done: the first resolved, the second failed on an
\* exception that is not transient
C1_Witness ==
    /\ pc = "done"
    /\ Len(df) = 2
    /\ Resolved(geocoded_results[1])
    /\ Failed(geocoded_results[2])
    /\ Len(calls) > 0
    /\ Raised(calls[Len(calls)])
    /\ calls[Len(calls)].result.exc = "Exception"

\* C2 (as claimed): within a row, a query string the geocoder answered with no
\* match is never sent to the geocoder again.
C2_NotFoundNotRetried ==
    \A j \in RequestsIn(calls) : \A k \in RequestsIn(calls) :
        (j < k /\ calls[j].result.kind = "None") => calls[k].query # calls[j].query

\* C3 (as claimed): when a row fails and its Full Address query raised an error
\* that is not retryable, or a transient error in the last attempt that
\* max_retries allows, a City Only query was sent after that error.
C3_FallbackAfterFullFailure ==
    (RowDone /\ Failed(Outcome)) =>
        \A k \in RequestsIn(calls) :
            ( /\ calls[k].strategy = "full"
              /\ Raised(calls[k])
              /\ \/ calls[k].result.exc \notin Transient
                 \/ calls[k].retry = max_retries - 1 )
            => \E j \in RequestsIn(calls) : j > k /\ calls[j].strategy = "city"

\* C4 (as claimed): when two rows of the table have the same Full Address query
\* after clean_address, that query is sent once in the run: while the later row
\* is processed, a query already sent is not sent again.
C4_RepeatedQueryServedFromCache ==
    [][\A i \in 1..(index - 1) :
          ( /\ index <= Len(df)
            /\ FullAddress(df[i]) = FullAddress(df[index])
            /\ FullAddress(df[index]) \in requested )
          => ~SentNow(FullAddress(df[index]))]_vars

\* C5: when every request made for a row raised a transient error, at most
\* max_retries requests were made, and once the row is done exactly max_retries
\* were made and the row is failed.
C5_RetryBound ==
    /\ AllTransient(calls) => NumRequests <= max_retries
    /\ (RowDone /\ AllTransient(calls)) =>
          (NumRequests = max_retries /\ Failed(Outcome))

\* a row is done after max_retries >= 2 requests that all raised transient errors
C5_Witness ==
    /\ RowDone
    /\ max_retries >= 2
    /\ AllTransient(calls)
    /\ NumRequests = max_retries
    /\ NumSleeps = max_retries
    /\ Failed(Outcome)

\* C6 (as claimed): a row whose address and city are both missing (empty or
\* None) ends failed with no request sent to the geocoder.
C6_MissingFieldsNoCall ==
    (RowDone /\ Missing(df[index - 1].address) /\ Missing(df[index - 1].city))
        => (NumRequests = 0 /\ Failed(Outcome))

\* C7 (as claimed): no request is sent to the geocoder when the last thing the
\* run did on the network was a request: a sleep lies between any two requests.
C7_RateLimit ==
    [][(\E q \in {FullAddress(r) : r \in Rows} \cup {CityAddress(r) : r \in Rows} :
           SentNow(q))
       => last_event # "request"]_vars

\* C8: clean_address applied to its own result returns that result.
C8_Idempotent == cpc = 2 => cz = cy

\* clean_address was applied twice to a string it changes: punctuation removed
\* and whitespace collapsed, something left
C8_Witness ==
    /\ cpc = 2
    /\ cy # <<>>
    /\ Len(cy) + 2 <= Len(cx)
    /\ \E k \in 1..Len(cx) : cx[k] \in PunctChars
    /\ \E k \in 1..Len(cx) : cx[k] \in SpaceChars

\* C9: within a row, a City Only request directly follows a Full Address request
\* of the same attempt that found no match; a Full Address request is the
\* first request of its attempt; a request that found a location is the last
\* thing done for the row, and its coordinates are the row's outcome.
C9_FirstSuccessStops ==
    \A k \in RequestsIn(calls) :
        /\ calls[k].strategy = "city" =>
              /\ k > 1
              /\ calls[k - 1].kind = "geocode"
              /\ calls[k - 1].strategy = "full"
              /\ calls[k - 1].retry = calls[k].retry
              /\ calls[k - 1].result.kind = "None"
        /\ calls[k].strategy = "full" =>
              \A j \in 1..(k - 1) : calls[j].retry < calls[k].retry
        /\ calls[k].result.kind = "location" =>
              /\ k = Len(calls)
              /\ RowDone
              /\ Outcome = <<calls[k].result.latitude, calls[k].result.longitude>>

\* a row resolved by its City Only query after the Full Address query found nothing
C9_Witness ==
    /\ RowDone
    /\ Len(calls) = 2
    /\ calls[1].strategy = "full"
    /\ calls[1].result.kind = "None"
    /\ calls[2].strategy = "city"
    /\ calls[2].result.kind = "location"
    /\ Outcome = <<"lat2", "lng2">>

\* C10: for a row, at most 2 * max_retries requests and at most max_retries
\* sleeps are made, the loop variable never passes max_retries and an
\* iteration of the loop does at most three things (so the loop ends), and a
\* request that raised an exception that is not transient is the last thing
\* done for the row, which fails.
C10_BoundedResolution ==
    /\ NumRequests <= 2 * max_retries
    /\ NumSleeps <= max_retries
    /\ retry <= max_retries
    /\ Len(calls) <= 3 * retry + 2
    /\ \A k \in RequestsIn(calls) :
          (Raised(calls[k]) /\ calls[k].result.exc \notin Transient) =>
              /\ k = Len(calls)
              /\ \/ pc = "failed"
                 \/ RowDone /\ Failed(Outcome)

\* a row is done after 2 * max_retries requests, none of which found a match,
\* the last one raising an exception that is not transient
C10_Witness ==
    /\ RowDone
    /\ max_retries >= 2
    /\ NumRequests = 2 * max_retries
    /\ Raised(calls[Len(calls)])
    /\ calls[Len(calls)].result.exc = "Exception"
    /\ Failed(Outcome)

====
